---------------------------- MODULE Spec2Model ----------------------------
(* State machine of the photo editor: the App controller (src/App.tsx),   *)
(* the region selector of the edited-image card                            *)
(* (src/components/ImageCard.tsx), the file codec (utils/fileUtils) and    *)
(* the two remote edit entry points (src/services/geminiService.ts).       *)
(*                                                                         *)
(* Strings the code splits, trims or matches are sequences of tokens; a   *)
(* multi-letter token stands for a run of characters none of which is a   *)
(* separator.  Every handler runs to its first await as one step (React    *)
(* commits the batched updates of a discrete event before the next event); *)
(* what follows an await is a step of its own.                             *)
EXTENDS Integers, Sequences, FiniteSets, TLC

\* A nullable value is the empty tuple (null / undefined) or a 1-tuple.
Null == <<>>
Some(v) == <<v>>
Val(o) == o[1]

(* ----------------------------- bounds ---------------------------------- *)
\* uploads whose FileReader has not finished yet
MaxPendingUploads == 2

(* --------------------------- pure helpers ------------------------------ *)
Min(a, b) == IF a <= b THEN a ELSE b
Max(a, b) == IF a >= b THEN a ELSE b
Abs(a) == IF a >= 0 THEN a ELSE 0 - a

\* String.prototype.split(',') : the pieces between the separators
RECURSIVE SplitAt(_, _, _)
SplitAt(s, sep, cur) ==
    IF s = <<>> THEN <<cur>>
    ELSE IF Head(s) = sep THEN <<cur>> \o SplitAt(Tail(s), sep, <<>>)
    ELSE SplitAt(Tail(s), sep, Append(cur, Head(s)))

Split(s, sep) == SplitAt(s, sep, <<>>)

\* const [header, base64] = s.split(','): a missing second piece is undefined
Destructure2(pieces) ==
    [header |-> pieces[1],
     base64 |-> IF Len(pieces) >= 2 THEN Some(pieces[2]) ELSE Null]

\* !s for a string that may be undefined
Falsy(s) == s = Null \/ Val(s) = <<>>

\* header.match(/:(.*?);/) : the text between the first ':' and the first ';'
\* after it; Null when there is no such pair
MimeTypeMatch(header) ==
    LET colons == {i \in 1..Len(header) : header[i] = ":"}
    IN  IF colons = {} THEN Null
        ELSE LET i == CHOOSE c \in colons : \A d \in colons : c <= d
                 semis == {j \in (i+1)..Len(header) : header[j] = ";"}
             IN  IF semis = {} THEN Null
                 ELSE LET j == CHOOSE c \in semis : \A d \in semis : c <= d
                      IN  Some(SubSeq(header, i + 1, j - 1))

\* String.prototype.trim()
RECURSIVE TrimStart(_)
TrimStart(s) == IF s # <<>> /\ Head(s) = " " THEN TrimStart(Tail(s)) ELSE s

RECURSIVE TrimEnd(_)
TrimEnd(s) ==
    IF s # <<>> /\ s[Len(s)] = " " THEN TrimEnd(SubSeq(s, 1, Len(s) - 1)) ELSE s

Trim(s) == TrimEnd(TrimStart(s))

\* `data:${mimeType};base64,${payload}`
DataUrl(mimeType, payload) ==
    <<"data", ":">> \o mimeType \o <<";", "base64", ",">> \o payload

(* ------------------------- user-visible messages ----------------------- *)
\* the texts of the source, without their accents
MsgInvalidFileType == "Tipo de arquivo invalido. Por favor, envie uma imagem."
MsgUploadFailed == "Nao foi possivel processar o arquivo enviado."
MsgRefUploadFailed == "Nao foi possivel processar o arquivo de referencia."
MsgEditValidation ==
    "Por favor, envie uma imagem e insira uma instrucao de edicao."
MsgInpaintValidation ==
    "Por favor, selecione uma area e insira uma instrucao para editar."
MsgEditedUnparsable == "Nao foi possivel processar a imagem editada existente."
MsgNoImage ==
    "Nenhuma imagem foi gerada na resposta. O prompt pode ter sido bloqueado ou ser invalido."
MsgEditFailed ==
    "Falha ao editar a imagem. A solicitacao pode ter sido bloqueada devido a politicas de seguranca. Tente um prompt ou imagem diferente."
MsgSelectionFailed ==
    "Falha ao editar a area selecionada. A solicitacao pode ter sido bloqueada. Tente um prompt ou imagem diferente."
MsgNoCanvas ==
    "Nao foi possivel obter o contexto do canvas para criar a mascara."
MsgUnknown == "Ocorreu um erro desconhecido."

(* ------------------------------ inputs --------------------------------- *)
\* The files the user can pick: the declared type and what FileReader
\* yields for it (Null when the read fails and reader.onerror fires).
Files == {"png1", "jpg2", "txt3"}

FileType(f) ==
    CASE f = "png1" -> <<"image/", "png">>
      [] f = "jpg2" -> <<"image/", "jpeg">>
      [] f = "txt3" -> <<"text/", "plain">>

FileBytes(f) ==
    CASE f = "png1" -> <<"P1">>
      [] f = "jpg2" -> <<"P2">>
      [] f = "txt3" -> <<"T3">>

\* reader.readAsDataURL(file): the file's data URL, the bare "data:" an empty
\* file reads as, or Null when reader.onerror fires
ReadAsDataURL(f) ==
    {Some(DataUrl(FileType(f), FileBytes(f))), Some(<<"data", ":">>), Null}

\* file.type.startsWith('image/')
StartsWithImage(type) == type # <<>> /\ Head(type) = "image/"

\* the files offered to the reference input
RefFiles == {"jpg2", "txt3"}

\* what the user types into the whole-image and into the region textarea
Prompts == {<<>>, <<" ">>, <<" ", "a">>}
InpaintPrompts == {<<>>, <<"b", " ">>}

\* fileToBase64: what the promise settles to for a file and a reader outcome
fileToBase64(f, read) ==
    IF read = Null THEN [ok |-> FALSE, base64 |-> <<>>, mimeType |-> <<>>]
    ELSE LET d == Destructure2(Split(Val(read), ","))
             m == MimeTypeMatch(d.header)
             mimeType == IF m # Null THEN Val(m) ELSE FileType(f)
         IN  IF d.header = <<>> \/ Falsy(d.base64)
             THEN [ok |-> FALSE, base64 |-> <<>>, mimeType |-> <<>>]
             ELSE IF mimeType = <<>>
             THEN [ok |-> FALSE, base64 |-> <<>>, mimeType |-> <<>>]
             ELSE [ok |-> TRUE, base64 |-> Val(d.base64), mimeType |-> mimeType]

(* ------------------------------- state --------------------------------- *)
VARIABLES
    originalImage,    \* App: null or {url, base64, mimeType}
    referenceImage,   \* App: null or {url, base64, mimeType}
    editedImage,      \* App: null or a data URL
    prompt,           \* App: whole-image instruction
    inpaintPrompt,    \* App: region instruction
    isLoading,        \* App
    error,            \* App: null or a message
    isSelecting,      \* App
    selection,        \* App: null or {x, y, width, height} in percent
    isDrawing,        \* edited ImageCard
    startPos,         \* edited ImageCard: anchor of the drag
    uploads,          \* fileToBase64 promises not settled yet, oldest first
    calls,            \* edit calls of geminiService not settled yet
    lastOp,           \* history: the step taken last
    lastResponse      \* history: the response the step taken last resumed with

vars == <<originalImage, referenceImage, editedImage, prompt, inpaintPrompt,
          isLoading, error, isSelecting, selection, isDrawing, startPos,
          uploads, calls, lastOp, lastResponse>>

NoResponse == [ok |-> FALSE, parts |-> <<[type |-> "none", data |-> <<>>]>>]

Init ==
    /\ originalImage = Null
    /\ referenceImage = Null
    /\ editedImage = Null
    /\ prompt = <<>>
    /\ inpaintPrompt = <<>>
    /\ isLoading = FALSE
    /\ error = Null
    /\ isSelecting = FALSE
    /\ selection = Null
    /\ isDrawing = FALSE
    /\ startPos = [x |-> 0, y |-> 0]
    /\ uploads = <<>>
    /\ calls = <<>>
    /\ lastOp = "init"
    /\ lastResponse = NoResponse

\* s without its i-th element
RemoveAt(s, i) == SubSeq(s, 1, i - 1) \o SubSeq(s, i + 1, Len(s))

(* ------------------------------ uploads -------------------------------- *)
\* history kept with the pending uploads, which are in the order they were
\* accepted: the first n of them were accepted before an upload that has
\* been stored as original image by now
Superseded(pending, n) ==
    [j \in 1..Len(pending) |->
        IF j <= n /\ pending[j].slot = "original"
        THEN [pending[j] EXCEPT !.stale = TRUE]
        ELSE pending[j]]

\* <input type="file" disabled={isLoading}> and the buttons that open it
FileInputEnabled == ~isLoading

\* variant: a new upload keeps the region
handleImageUpload_KeepsSelection(f) ==
    /\ FileInputEnabled
    /\ IF ~StartsWithImage(FileType(f))
       THEN /\ error' = Some(MsgInvalidFileType)
            /\ lastOp' = "handleImageUpload:invalid"
            /\ UNCHANGED <<editedImage, isSelecting, selection, uploads>>
       ELSE /\ Len(uploads) < MaxPendingUploads
            /\ error' = Null
            /\ editedImage' = Null
            /\ isSelecting' = FALSE
            /\ selection' = selection
            /\ uploads' = Append(uploads, [slot |-> "original", file |-> f,
                                      stale |-> FALSE])
            /\ lastOp' = "handleImageUpload:accepted"
    /\ UNCHANGED <<originalImage, referenceImage, prompt, inpaintPrompt,
                   isLoading, isDrawing, startPos, calls>>
    /\ lastResponse' = NoResponse

handleImageUpload(f) ==
    /\ FileInputEnabled
    /\ IF ~StartsWithImage(FileType(f))
       THEN /\ error' = Some(MsgInvalidFileType)
            /\ lastOp' = "handleImageUpload:invalid"
            /\ UNCHANGED <<editedImage, isSelecting, selection, uploads>>
       ELSE /\ Len(uploads) < MaxPendingUploads
            /\ error' = Null
            /\ editedImage' = Null
            /\ isSelecting' = FALSE
            /\ selection' = Null
            /\ uploads' = Append(uploads, [slot |-> "original", file |-> f,
                                      stale |-> FALSE])
            /\ lastOp' = "handleImageUpload:accepted"
    /\ UNCHANGED <<originalImage, referenceImage, prompt, inpaintPrompt,
                   isLoading, isDrawing, startPos, calls>>
    /\ lastResponse' = NoResponse

\* variant: the error is cleared when the encoded file is stored
handleImageUploadResume_ClearsError(i) ==
    /\ i \in 1..Len(uploads)
    /\ uploads[i].slot = "original"
    /\ \E read \in ReadAsDataURL(uploads[i].file) :
         LET r == fileToBase64(uploads[i].file, read)
         IN  IF r.ok
             THEN /\ originalImage' = Some([url |-> uploads[i].file,
                                            base64 |-> r.base64,
                                            mimeType |-> r.mimeType])
                  /\ lastOp' = "handleImageUpload:stored"
                  /\ error' = Null
                  /\ uploads' = RemoveAt(uploads, i)
             ELSE /\ error' = Some(MsgUploadFailed)
                  /\ lastOp' = "handleImageUpload:failed"
                  /\ uploads' = RemoveAt(uploads, i)
                  /\ UNCHANGED originalImage
    /\ UNCHANGED <<referenceImage, editedImage, prompt, inpaintPrompt, isLoading,
                   isSelecting, selection, isDrawing, startPos, calls>>
    /\ lastResponse' = NoResponse

\* handleImageUpload after `await fileToBase64(file)`; with track set, the
\* uploads still pending keep the history Superseded records
handleImageUploadResumeTracking(i, track) ==
    /\ i \in 1..Len(uploads)
    /\ uploads[i].slot = "original"
    /\ \E read \in ReadAsDataURL(uploads[i].file) :
         LET r == fileToBase64(uploads[i].file, read)
         IN  IF r.ok
             THEN /\ originalImage' = Some([url |-> uploads[i].file,
                                            base64 |-> r.base64,
                                            mimeType |-> r.mimeType])
                  /\ lastOp' = "handleImageUpload:stored"
                  /\ uploads' = IF track
                                THEN Superseded(RemoveAt(uploads, i), i - 1)
                                ELSE RemoveAt(uploads, i)
                  /\ UNCHANGED error
             ELSE /\ error' = Some(MsgUploadFailed)
                  /\ lastOp' = "handleImageUpload:failed"
                  /\ uploads' = RemoveAt(uploads, i)
                  /\ UNCHANGED originalImage
    /\ UNCHANGED <<referenceImage, editedImage, prompt, inpaintPrompt, isLoading,
                   isSelecting, selection, isDrawing, startPos, calls>>
    /\ lastResponse' = NoResponse

handleImageUploadResume(i) == handleImageUploadResumeTracking(i, FALSE)

\* variant: the type of the reference file is not tested
handleReferenceImageUpload_NoTypeCheck(f) ==
    /\ FileInputEnabled
    /\ Len(uploads) < MaxPendingUploads
    /\ error' = Null
    /\ uploads' = Append(uploads, [slot |-> "reference", file |-> f,
                              stale |-> FALSE])
    /\ lastOp' = "handleReferenceImageUpload:accepted"
    /\ UNCHANGED <<originalImage, referenceImage, editedImage, prompt,
                   inpaintPrompt, isLoading, isSelecting, selection, isDrawing,
                   startPos, calls>>
    /\ lastResponse' = NoResponse

handleReferenceImageUpload(f) ==
    /\ FileInputEnabled
    /\ IF ~StartsWithImage(FileType(f))
       THEN /\ error' = Some(MsgInvalidFileType)
            /\ lastOp' = "handleReferenceImageUpload:invalid"
            /\ UNCHANGED uploads
       ELSE /\ Len(uploads) < MaxPendingUploads
            /\ error' = Null
            /\ uploads' = Append(uploads, [slot |-> "reference", file |-> f,
                                      stale |-> FALSE])
            /\ lastOp' = "handleReferenceImageUpload:accepted"
    /\ UNCHANGED <<originalImage, referenceImage, editedImage, prompt,
                   inpaintPrompt, isLoading, isSelecting, selection, isDrawing,
                   startPos, calls>>
    /\ lastResponse' = NoResponse

\* handleReferenceImageUpload after `await fileToBase64(file)`
handleReferenceImageUploadResume(i) ==
    /\ i \in 1..Len(uploads)
    /\ uploads[i].slot = "reference"
    /\ \E read \in ReadAsDataURL(uploads[i].file) :
         LET r == fileToBase64(uploads[i].file, read)
         IN  IF r.ok
             THEN /\ referenceImage' = Some([url |-> uploads[i].file,
                                             base64 |-> r.base64,
                                             mimeType |-> r.mimeType])
                  /\ lastOp' = "handleReferenceImageUpload:stored"
                  /\ UNCHANGED error
             ELSE /\ error' = Some(MsgRefUploadFailed)
                  /\ lastOp' = "handleReferenceImageUpload:failed"
                  /\ UNCHANGED referenceImage
    /\ uploads' = RemoveAt(uploads, i)
    /\ UNCHANGED <<originalImage, editedImage, prompt, inpaintPrompt, isLoading,
                   isSelecting, selection, isDrawing, startPos, calls>>
    /\ lastResponse' = NoResponse

(* --------------------------- remote service ---------------------------- *)
TextPart == [type |-> "text", data |-> <<"words">>]
ImagePart(d) == [type |-> "image", data |-> d]

\* What ai.models.generateContent can settle to: a rejection (ok = FALSE) or
\* the content units of the first candidate (none when there is no candidate).
Responses ==
    {[ok |-> FALSE, parts |-> <<>>],
     [ok |-> TRUE, parts |-> <<>>],
     [ok |-> TRUE, parts |-> <<TextPart>>],
     [ok |-> TRUE, parts |-> <<ImagePart(<<"N1">>)>>],
     [ok |-> TRUE, parts |-> <<TextPart, ImagePart(<<"N1">>), ImagePart(<<"N2">>)>>],
     [ok |-> TRUE, parts |-> <<ImagePart(<<>>)>>]}

\* variant: the payload of the last image unit is returned
FirstInlineData_Last(parts) ==
    LET images == SelectSeq(parts, LAMBDA part : part.type = "image")
    IN  IF images = <<>> THEN Null ELSE Some(images[Len(images)].data)

\* for (const part of parts) if (part.inlineData) return part.inlineData.data
RECURSIVE FirstInlineData(_)
FirstInlineData(parts) ==
    IF parts = <<>> THEN Null
    ELSE IF Head(parts).type = "image" THEN Some(Head(parts).data)
    ELSE FirstInlineData(Tail(parts))

\* how a call ends: `return d`, `throw new Error(m)`, or a rejection with
\* something that is no Error (the event image.onerror rejects with)
Returned(d) == [ok |-> TRUE, data |-> d, message |-> "", isError |-> FALSE]
Thrown(m) == [ok |-> FALSE, data |-> <<>>, message |-> m, isError |-> TRUE]
Rejected(what) == [ok |-> FALSE, data |-> <<>>, message |-> what, isError |-> FALSE]

\* the try block of either entry point, from the response on
ExtractImage(response) ==
    IF ~response.ok THEN Thrown("generateContent rejected")
    ELSE LET d == FirstInlineData(response.parts)
         IN  IF d # Null THEN Returned(Val(d)) ELSE Thrown(MsgNoImage)

\* variant: the catch block rethrows what it caught
Catch_Rethrows(outcome, message) == outcome

\* try { ... } catch (error) { throw new Error(message) }
Catch(outcome, message) == IF outcome.ok THEN outcome ELSE Thrown(message)

\* editImageWithPrompt, from the response on
editImageWithPrompt(response) == Catch(ExtractImage(response), MsgEditFailed)

\* editImageWithSelection, from the response on
editImageWithSelection(response) == Catch(ExtractImage(response), MsgSelectionFailed)

\* err instanceof Error ? err.message : 'Ocorreu um erro desconhecido.'
ErrorMessage(outcome) == IF outcome.isError THEN outcome.message ELSE MsgUnknown

(* --------------------------- whole-image edit -------------------------- *)
setPrompt(p) ==
    /\ ~isLoading
    /\ p # prompt
    /\ prompt' = p
    /\ lastOp' = "setPrompt"
    /\ UNCHANGED <<originalImage, referenceImage, editedImage, inpaintPrompt,
                   isLoading, error, isSelecting, selection, isDrawing, startPos,
                   uploads, calls>>
    /\ lastResponse' = NoResponse

\* variant: the button is not disabled while a request is in flight
GenerateButtonEnabled_NoLoadingGate == ~(originalImage = Null \/ prompt = <<>>)

\* <button onClick={handleEditRequest}
\*         disabled={isLoading || !originalImage || !prompt}>
GenerateButtonEnabled == ~(isLoading \/ originalImage = Null \/ prompt = <<>>)

\* variant: the reference image is placed before the primary image
PromptParts_ReferenceFirst(base64, mimeType, text, ref) ==
    (IF ref # Null
     THEN <<[type |-> "image", data |-> Val(ref).base64,
             mimeType |-> Val(ref).mimeType]>>
     ELSE <<>>)
    \o <<[type |-> "image", data |-> base64, mimeType |-> mimeType]>>
    \o <<[type |-> "text", data |-> text, mimeType |-> <<>>]>>

\* the content units editImageWithPrompt sends
PromptParts(base64, mimeType, text, ref) ==
    <<[type |-> "image", data |-> base64, mimeType |-> mimeType]>>
    \o (IF ref # Null
        THEN <<[type |-> "image", data |-> Val(ref).base64,
                mimeType |-> Val(ref).mimeType]>>
        ELSE <<>>)
    \o <<[type |-> "text", data |-> text, mimeType |-> <<>>]>>

\* variant: the prompt is validated without trimming it
handleEditRequest_NoTrim ==
    /\ GenerateButtonEnabled
    /\ IF originalImage = Null \/ prompt = <<>>
       THEN /\ error' = Some(MsgEditValidation)
            /\ lastOp' = "handleEditRequest:invalid"
            /\ UNCHANGED <<isLoading, editedImage, isSelecting, selection, calls>>
       ELSE /\ isLoading' = TRUE
            /\ error' = Null
            /\ editedImage' = Null
            /\ isSelecting' = FALSE
            /\ selection' = Null
            /\ calls' = Append(calls,
                   [kind |-> "prompt", stage |-> "remote",
                    parts |-> PromptParts(Val(originalImage).base64,
                                          Val(originalImage).mimeType,
                                          Trim(prompt), referenceImage),
                    selection |-> Null, image |-> Null])
            /\ lastOp' = "handleEditRequest:dispatched"
    /\ UNCHANGED <<originalImage, referenceImage, prompt, inpaintPrompt,
                   isDrawing, startPos, uploads>>
    /\ lastResponse' = NoResponse

handleEditRequest ==
    /\ GenerateButtonEnabled
    /\ IF originalImage = Null \/ Trim(prompt) = <<>>
       THEN /\ error' = Some(MsgEditValidation)
            /\ lastOp' = "handleEditRequest:invalid"
            /\ UNCHANGED <<isLoading, editedImage, isSelecting, selection, calls>>
       ELSE /\ isLoading' = TRUE
            /\ error' = Null
            /\ editedImage' = Null
            /\ isSelecting' = FALSE
            /\ selection' = Null
            /\ calls' = Append(calls,
                   [kind |-> "prompt", stage |-> "remote",
                    parts |-> PromptParts(Val(originalImage).base64,
                                          Val(originalImage).mimeType,
                                          Trim(prompt), referenceImage),
                    selection |-> Null, image |-> Null])
            /\ lastOp' = "handleEditRequest:dispatched"
    /\ UNCHANGED <<originalImage, referenceImage, prompt, inpaintPrompt,
                   isDrawing, startPos, uploads>>
    /\ lastResponse' = NoResponse

\* variant: setIsLoading(false) at the end of the try block, not in finally
handleEditRequestResume_NoFinally(i) ==
    /\ i \in 1..Len(calls)
    /\ calls[i].kind = "prompt"
    /\ \E response \in Responses :
         LET r == editImageWithPrompt(response)
         IN  /\ lastResponse' = response
             /\ IF r.ok
                THEN /\ editedImage' = Some(DataUrl(<<"image/", "png">>, r.data))
                     /\ isLoading' = FALSE
                     /\ lastOp' = "handleEditRequest:succeeded"
                     /\ UNCHANGED error
                ELSE /\ error' = Some(ErrorMessage(r))
                     /\ lastOp' = "handleEditRequest:failed"
                     /\ UNCHANGED <<editedImage, isLoading>>
    /\ calls' = RemoveAt(calls, i)
    /\ UNCHANGED <<originalImage, referenceImage, prompt, inpaintPrompt,
                   isSelecting, selection, isDrawing, startPos, uploads>>

\* handleEditRequest after `await editImageWithPrompt(...)`
handleEditRequestResume(i) ==
    /\ i \in 1..Len(calls)
    /\ calls[i].kind = "prompt"
    /\ \E response \in Responses :
         LET r == editImageWithPrompt(response)
         IN  /\ lastResponse' = response
             /\ IF r.ok
                THEN /\ editedImage' = Some(DataUrl(<<"image/", "png">>, r.data))
                     /\ lastOp' = "handleEditRequest:succeeded"
                     /\ UNCHANGED error
                ELSE /\ error' = Some(ErrorMessage(r))
                     /\ lastOp' = "handleEditRequest:failed"
                     /\ UNCHANGED editedImage
    /\ isLoading' = FALSE
    /\ calls' = RemoveAt(calls, i)
    /\ UNCHANGED <<originalImage, referenceImage, prompt, inpaintPrompt,
                   isSelecting, selection, isDrawing, startPos, uploads>>

(* ------------------------------ selector ------------------------------- *)
\* containerRef.current.getBoundingClientRect() of the edited-image card
Rect == [left |-> 10, top |-> 20, width |-> 200, height |-> 200]

\* pointer positions of mouse events: left of / above the surface, on its
\* edges, in its middle, and beyond its right / bottom edge
ClientXs == {-40, 10, 110, 210, 260}
ClientYs == {-30, 20, 120, 220, 270}
MouseEvents == [clientX : ClientXs, clientY : ClientYs]

\* the pointer positions the whole-application specification draws from: the
\* button goes down on the top-left corner of the surface, and the pointer
\* moves there or beyond the bottom-right corner (SpecSelector draws from
\* all of MouseEvents)
PressEvents == {[clientX |-> 10, clientY |-> 20]}
CornerEvents == PressEvents \cup {[clientX |-> 260, clientY |-> 270]}

\* Math.max(0, Math.min(100, v))
Clamp(v) == Max(0, Min(100, v))

\* variant: the percentages are not clamped to 0..100
getRelativeCoords_Unclamped(e) ==
    [x |-> ((e.clientX - Rect.left) * 100) \div Rect.width,
     y |-> ((e.clientY - Rect.top) * 100) \div Rect.height]

\* getRelativeCoords (the divisions are exact for the positions above)
getRelativeCoords(e) ==
    [x |-> Clamp(((e.clientX - Rect.left) * 100) \div Rect.width),
     y |-> Clamp(((e.clientY - Rect.top) * 100) \div Rect.height)]

\* variant: the press handler does not test isSelecting
handleMouseDown_NoSelectingGuard(e) ==
    /\ LET coords == getRelativeCoords(e)
       IN  /\ isDrawing' = TRUE
           /\ startPos' = coords
           /\ selection' = Some([x |-> coords.x, y |-> coords.y,
                                 width |-> 0, height |-> 0])
           /\ lastOp' = "handleMouseDown:anchored"
    /\ UNCHANGED <<originalImage, referenceImage, editedImage, prompt,
                   inpaintPrompt, isLoading, error, isSelecting, uploads, calls>>
    /\ lastResponse' = NoResponse

handleMouseDown(e) ==
    /\ IF ~isSelecting
       THEN /\ lastOp' = "handleMouseDown:ignored"
            /\ UNCHANGED <<isDrawing, startPos, selection>>
       ELSE LET coords == getRelativeCoords(e)
            IN  /\ isDrawing' = TRUE
                /\ startPos' = coords
                /\ selection' = Some([x |-> coords.x, y |-> coords.y,
                                      width |-> 0, height |-> 0])
                /\ lastOp' = "handleMouseDown:anchored"
    /\ UNCHANGED <<originalImage, referenceImage, editedImage, prompt,
                   inpaintPrompt, isLoading, error, isSelecting, uploads, calls>>
    /\ lastResponse' = NoResponse

\* variant: the move handler does not test isDrawing
handleMouseMove_NoDrawingGuard(e) ==
    /\ LET currentCoords == getRelativeCoords(e)
       IN  /\ selection' =
                Some([x |-> Min(startPos.x, currentCoords.x),
                      y |-> Min(startPos.y, currentCoords.y),
                      width |-> Abs(startPos.x - currentCoords.x),
                      height |-> Abs(startPos.y - currentCoords.y)])
           /\ lastOp' = "handleMouseMove:resized"
    /\ UNCHANGED <<originalImage, referenceImage, editedImage, prompt,
                   inpaintPrompt, isLoading, error, isSelecting, isDrawing,
                   startPos, uploads, calls>>
    /\ lastResponse' = NoResponse

handleMouseMove(e) ==
    /\ IF ~isDrawing
       THEN /\ lastOp' = "handleMouseMove:ignored"
            /\ UNCHANGED selection
       ELSE LET currentCoords == getRelativeCoords(e)
            IN  /\ selection' =
                     Some([x |-> Min(startPos.x, currentCoords.x),
                           y |-> Min(startPos.y, currentCoords.y),
                           width |-> Abs(startPos.x - currentCoords.x),
                           height |-> Abs(startPos.y - currentCoords.y)])
                /\ lastOp' = "handleMouseMove:resized"
    /\ UNCHANGED <<originalImage, referenceImage, editedImage, prompt,
                   inpaintPrompt, isLoading, error, isSelecting, isDrawing,
                   startPos, uploads, calls>>
    /\ lastResponse' = NoResponse

\* onMouseUp and onMouseLeave
handleMouseUp ==
    /\ isDrawing' = FALSE
    /\ lastOp' = "handleMouseUp"
    /\ UNCHANGED <<originalImage, referenceImage, editedImage, prompt,
                   inpaintPrompt, isLoading, error, isSelecting, selection,
                   startPos, uploads, calls>>
    /\ lastResponse' = NoResponse

(* ------------------------------ region edit ---------------------------- *)
\* const showActions = imageUrl && !isLoading   (imageUrl is editedImage)
showActions == editedImage # Null /\ ~isLoading

\* variant: the panel is shown for any region, empty ones included
InpaintPanelShown_AnyRegion ==
    /\ showActions
    /\ isSelecting
    /\ selection # Null

\* the panel with the region prompt and its "Gerar" button
InpaintPanelShown ==
    /\ showActions
    /\ isSelecting
    /\ selection # Null
    /\ Val(selection).width > 0
    /\ Val(selection).height > 0

\* <button onClick={onInpaintRequest}
\*         disabled={isLoading || !inpaintPrompt?.trim()}>
InpaintButtonEnabled ==
    InpaintPanelShown /\ ~(isLoading \/ Trim(inpaintPrompt) = <<>>)

\* "Editar Area" / "Cancelar Selecao" / "Cancelar", disabled={isLoading}
ToggleButtonEnabled == showActions /\ ~isLoading

setInpaintPrompt(p) ==
    /\ InpaintPanelShown
    /\ ~isLoading
    /\ p # inpaintPrompt
    /\ inpaintPrompt' = p
    /\ lastOp' = "setInpaintPrompt"
    /\ UNCHANGED <<originalImage, referenceImage, editedImage, prompt, isLoading,
                   error, isSelecting, selection, isDrawing, startPos, uploads,
                   calls>>
    /\ lastResponse' = NoResponse

\* variant: leaving selection mode keeps the region prompt
handleSelectAreaToggle_KeepsPrompt ==
    /\ ToggleButtonEnabled
    /\ isSelecting' = ~isSelecting
    /\ IF ~isSelecting'
       THEN selection' = Null /\ UNCHANGED inpaintPrompt
       ELSE UNCHANGED <<selection, inpaintPrompt>>
    /\ lastOp' = "handleSelectAreaToggle"
    /\ UNCHANGED <<originalImage, referenceImage, editedImage, prompt, isLoading,
                   error, isDrawing, startPos, uploads, calls>>
    /\ lastResponse' = NoResponse

handleSelectAreaToggle ==
    /\ ToggleButtonEnabled
    /\ isSelecting' = ~isSelecting
    /\ IF ~isSelecting'
       THEN selection' = Null /\ inpaintPrompt' = <<>>
       ELSE UNCHANGED <<selection, inpaintPrompt>>
    /\ lastOp' = "handleSelectAreaToggle"
    /\ UNCHANGED <<originalImage, referenceImage, editedImage, prompt, isLoading,
                   error, isDrawing, startPos, uploads, calls>>
    /\ lastResponse' = NoResponse

\* pixel sizes the stored edited image can decode to
ImageSizes == {[width |-> 4, height |-> 2]}

\* length of the overlap of [lo, hi) with the pixel [100 * p, 100 * p + 100),
\* in hundredths of a pixel
Covered(lo, hi, p) == Max(0, Min(hi, 100 * p + 100) - Max(lo, 100 * p))

\* variant: the rectangle is scaled by the other dimension of the canvas
Mask_SwappedAxes(sel, image) ==
    LET maskX == sel.x * image.height
        maskY == sel.y * image.width
        maskWidth == sel.width * image.height
        maskHeight == sel.height * image.width
    IN  [width |-> image.width,
         height |-> image.height,
         pixels |-> [px \in (0..image.width - 1) \X (0..image.height - 1) |->
              LET cx == Covered(maskX, maskX + maskWidth, px[1])
                  cy == Covered(maskY, maskY + maskHeight, px[2])
              IN  IF cx = 100 /\ cy = 100 THEN "white"
                  ELSE IF cx = 0 \/ cy = 0 THEN "black"
                  ELSE "grey"]]

\* the mask canvas: fillRect black over the whole canvas, then fillRect white
\* over (maskX, maskY, maskWidth, maskHeight); a pixel the rectangle covers
\* in part is neither
Mask(sel, image) ==
    LET maskX == sel.x * image.width
        maskY == sel.y * image.height
        maskWidth == sel.width * image.width
        maskHeight == sel.height * image.height
    IN  [width |-> image.width,
         height |-> image.height,
         pixels |->
           [px \in (0..(image.width - 1)) \X (0..(image.height - 1)) |->
              LET cx == Covered(maskX, maskX + maskWidth, px[1])
                  cy == Covered(maskY, maskY + maskHeight, px[2])
              IN  IF cx = 100 /\ cy = 100 THEN "white"
                  ELSE IF cx = 0 \/ cy = 0 THEN "black"
                  ELSE "grey"]]

\* variant: the mask is sent before the base image
SelectionParts_MaskFirst(base64, mimeType, text, mask) ==
    <<[type |-> "mask", data |-> mask, mimeType |-> <<"image/", "png">>],
      [type |-> "image", data |-> base64, mimeType |-> mimeType],
      [type |-> "text", data |-> text, mimeType |-> <<>>]>>

\* the content units editImageWithSelection sends
SelectionParts(base64, mimeType, text, mask) ==
    <<[type |-> "image", data |-> base64, mimeType |-> mimeType],
      [type |-> "mask", data |-> mask, mimeType |-> <<"image/", "png">>],
      [type |-> "text", data |-> text, mimeType |-> <<>>]>>

handleInpaintRequest ==
    /\ InpaintButtonEnabled
    /\ IF editedImage = Null \/ selection = Null \/ Trim(inpaintPrompt) = <<>>
       THEN /\ error' = Some(MsgInpaintValidation)
            /\ lastOp' = "handleInpaintRequest:invalid"
            /\ UNCHANGED <<isLoading, calls>>
       ELSE LET d == Destructure2(Split(Val(editedImage), ","))
                mimeTypeMatch == MimeTypeMatch(d.header)
            IN  IF Falsy(d.base64) \/ mimeTypeMatch = Null
                THEN /\ error' = Some(MsgEditedUnparsable)
                     /\ isLoading' = FALSE
                     /\ lastOp' = "handleInpaintRequest:unparsable"
                     /\ UNCHANGED calls
                ELSE /\ isLoading' = TRUE
                     /\ error' = Null
                     /\ calls' = Append(calls,
                            [kind |-> "selection", stage |-> "load",
                             parts |-> <<[type |-> "image",
                                          data |-> Val(d.base64),
                                          mimeType |-> Val(mimeTypeMatch)],
                                         [type |-> "text",
                                          data |-> inpaintPrompt,
                                          mimeType |-> <<>>]>>,
                             selection |-> selection, image |-> Null])
                     /\ lastOp' = "handleInpaintRequest:dispatched"
    /\ UNCHANGED <<originalImage, referenceImage, editedImage, prompt,
                   inpaintPrompt, isSelecting, selection, isDrawing, startPos,
                   uploads>>
    /\ lastResponse' = NoResponse

\* editImageWithSelection after `await new Promise(image.onload / onerror)`:
\* the image decodes and the request is sent, or the load or the canvas
\* fails, the catch block rethrows and handleInpaintRequest catches
editImageWithSelectionLoadedAs(i, sizes) ==
    /\ i \in 1..Len(calls)
    /\ calls[i].kind = "selection"
    /\ calls[i].stage = "load"
    /\ \/ \E image \in sizes :
            /\ calls' = [calls EXCEPT ![i] =
                  [kind |-> "selection", stage |-> "remote",
                   parts |-> SelectionParts(calls[i].parts[1].data,
                                            calls[i].parts[1].mimeType,
                                            calls[i].parts[2].data,
                                            Mask(Val(calls[i].selection), image)),
                   selection |-> calls[i].selection, image |-> Some(image)]]
            /\ lastOp' = "editImageWithSelection:sent"
            /\ UNCHANGED <<error, isLoading>>
       \/ \E cause \in {Rejected("image.onerror"), Thrown(MsgNoCanvas)} :
            /\ error' = Some(ErrorMessage(Catch(cause, MsgSelectionFailed)))
            /\ isLoading' = FALSE
            /\ calls' = RemoveAt(calls, i)
            /\ lastOp' = "handleInpaintRequest:failed"
    /\ UNCHANGED <<originalImage, referenceImage, editedImage, prompt,
                   inpaintPrompt, isSelecting, selection, isDrawing, startPos,
                   uploads>>
    /\ lastResponse' = NoResponse

\* the edited image decodes to one of the sizes of ImageSizes
editImageWithSelectionLoaded(i) == editImageWithSelectionLoadedAs(i, ImageSizes)

\* variant: a failed region edit drops the stored edited image
handleInpaintRequestResume_FailureClears(i) ==
    /\ i \in 1..Len(calls)
    /\ calls[i].kind = "selection"
    /\ calls[i].stage = "remote"
    /\ \E response \in Responses :
         LET r == editImageWithSelection(response)
         IN  /\ lastResponse' = response
             /\ IF r.ok
                THEN /\ editedImage' = Some(DataUrl(<<"image/", "png">>, r.data))
                     /\ isSelecting' = FALSE
                     /\ selection' = Null
                     /\ inpaintPrompt' = <<>>
                     /\ lastOp' = "handleInpaintRequest:succeeded"
                     /\ UNCHANGED error
                ELSE /\ error' = Some(ErrorMessage(r))
                     /\ editedImage' = Null
                     /\ lastOp' = "handleInpaintRequest:failed"
                     /\ UNCHANGED <<isSelecting, selection, inpaintPrompt>>
    /\ isLoading' = FALSE
    /\ calls' = RemoveAt(calls, i)
    /\ UNCHANGED <<originalImage, referenceImage, prompt, isDrawing, startPos,
                   uploads>>

\* variant: a successful region edit leaves the region prompt in place
handleInpaintRequestResume_KeepsPrompt(i) ==
    /\ i \in 1..Len(calls)
    /\ calls[i].kind = "selection"
    /\ calls[i].stage = "remote"
    /\ \E response \in Responses :
         LET r == editImageWithSelection(response)
         IN  /\ lastResponse' = response
             /\ IF r.ok
                THEN /\ editedImage' = Some(DataUrl(<<"image/", "png">>, r.data))
                     /\ isSelecting' = FALSE
                     /\ selection' = Null
                     /\ lastOp' = "handleInpaintRequest:succeeded"
                     /\ UNCHANGED <<error, inpaintPrompt>>
                ELSE /\ error' = Some(ErrorMessage(r))
                     /\ lastOp' = "handleInpaintRequest:failed"
                     /\ UNCHANGED <<editedImage, isSelecting, selection,
                                    inpaintPrompt>>
    /\ isLoading' = FALSE
    /\ calls' = RemoveAt(calls, i)
    /\ UNCHANGED <<originalImage, referenceImage, prompt, isDrawing, startPos,
                   uploads>>

\* variant: a failed region edit leaves selection mode
handleInpaintRequestResume_FailureLeavesMode(i) ==
    /\ i \in 1..Len(calls)
    /\ calls[i].kind = "selection"
    /\ calls[i].stage = "remote"
    /\ \E response \in Responses :
         LET r == editImageWithSelection(response)
         IN  /\ lastResponse' = response
             /\ IF r.ok
                THEN /\ editedImage' = Some(DataUrl(<<"image/", "png">>, r.data))
                     /\ isSelecting' = FALSE
                     /\ selection' = Null
                     /\ inpaintPrompt' = <<>>
                     /\ lastOp' = "handleInpaintRequest:succeeded"
                     /\ UNCHANGED error
                ELSE /\ error' = Some(ErrorMessage(r))
                     /\ isSelecting' = FALSE
                     /\ selection' = Null
                     /\ lastOp' = "handleInpaintRequest:failed"
                     /\ UNCHANGED <<editedImage, inpaintPrompt>>
    /\ isLoading' = FALSE
    /\ calls' = RemoveAt(calls, i)
    /\ UNCHANGED <<originalImage, referenceImage, prompt, isDrawing, startPos,
                   uploads>>

\* handleInpaintRequest after `await editImageWithSelection(...)`
handleInpaintRequestResume(i) ==
    /\ i \in 1..Len(calls)
    /\ calls[i].kind = "selection"
    /\ calls[i].stage = "remote"
    /\ \E response \in Responses :
         LET r == editImageWithSelection(response)
         IN  /\ lastResponse' = response
             /\ IF r.ok
                THEN /\ editedImage' = Some(DataUrl(<<"image/", "png">>, r.data))
                     /\ isSelecting' = FALSE
                     /\ selection' = Null
                     /\ inpaintPrompt' = <<>>
                     /\ lastOp' = "handleInpaintRequest:succeeded"
                     /\ UNCHANGED error
                ELSE /\ error' = Some(ErrorMessage(r))
                     /\ lastOp' = "handleInpaintRequest:failed"
                     /\ UNCHANGED <<editedImage, isSelecting, selection,
                                    inpaintPrompt>>
    /\ isLoading' = FALSE
    /\ calls' = RemoveAt(calls, i)
    /\ UNCHANGED <<originalImage, referenceImage, prompt, isDrawing, startPos,
                   uploads>>

(* --------------------------- specification ----------------------------- *)
Next ==
    \/ \E f \in Files : handleImageUpload(f)
    \/ \E i \in 1..MaxPendingUploads : handleImageUploadResume(i)
    \/ \E f \in RefFiles : handleReferenceImageUpload(f)
    \/ \E i \in 1..MaxPendingUploads : handleReferenceImageUploadResume(i)
    \/ \E p \in Prompts : setPrompt(p)
    \/ handleEditRequest
    \/ \E i \in 1..Len(calls) : handleEditRequestResume(i)
    \/ \E p \in InpaintPrompts : setInpaintPrompt(p)
    \/ handleSelectAreaToggle
    \/ \E e \in PressEvents : handleMouseDown(e)
    \/ \E e \in CornerEvents : handleMouseMove(e)
    \/ handleMouseUp
    \/ handleInpaintRequest
    \/ \E i \in 1..Len(calls) : editImageWithSelectionLoaded(i)
    \/ \E i \in 1..Len(calls) : handleInpaintRequestResume(i)

Spec == Init /\ [][Next]_vars

\* Every promise an edit request awaits settles: the image load of
\* editImageWithSelection and the remote call of either entry point.
SettleCall ==
    \/ \E i \in 1..Len(calls) : handleEditRequestResume(i)
    \/ \E i \in 1..Len(calls) : editImageWithSelectionLoaded(i)
    \/ \E i \in 1..Len(calls) : handleInpaintRequestResume(i)

SpecFair == Spec /\ WF_vars(SettleCall)

\* The selector on its own: the application with an edited image shown and
\* selection mode just switched on (the state of Spec after an upload of
\* png1, the prompt " a", an edit answered with one image and a click on
\* "Editar Area"), driven by pointer events anywhere around the surface.
InitSelector ==
    /\ originalImage = Some([url |-> "png1", base64 |-> <<"P1">>,
                             mimeType |-> <<"image/", "png">>])
    /\ referenceImage = Null
    /\ editedImage = Some(DataUrl(<<"image/", "png">>, <<"N1">>))
    /\ prompt = <<" ", "a">>
    /\ inpaintPrompt = <<>>
    /\ isLoading = FALSE
    /\ error = Null
    /\ isSelecting = TRUE
    /\ selection = Null
    /\ isDrawing = FALSE
    /\ startPos = [x |-> 0, y |-> 0]
    /\ uploads = <<>>
    /\ calls = <<>>
    /\ lastOp = "handleSelectAreaToggle"
    /\ lastResponse = NoResponse

NextSelector ==
    \/ \E e \in MouseEvents : handleMouseDown(e)
    \/ \E e \in MouseEvents : handleMouseMove(e)
    \/ handleMouseUp
    \/ handleSelectAreaToggle

SpecSelector == InitSelector /\ [][NextSelector]_vars

(* ---------------------------- the mask alone --------------------------- *)
\* Regions drawn on quarter positions of the surface and sent for images of
\* 100 x 100 and 4 x 2 pixels: the button goes down on the top-left corner
\* or a quarter in, the pointer moves to three quarters, to the bottom-right
\* corner or to the middle of the bottom edge.
MaskPressEvents ==
    {[clientX |-> 10, clientY |-> 20], [clientX |-> 60, clientY |-> 70]}
MaskMoveEvents ==
    {[clientX |-> 160, clientY |-> 170], [clientX |-> 210, clientY |-> 220],
     [clientX |-> 110, clientY |-> 220]}
MaskImageSizes ==
    {[width |-> 100, height |-> 100], [width |-> 4, height |-> 2]}

NextMask ==
    \/ \E e \in MaskPressEvents : handleMouseDown(e)
    \/ \E e \in MaskMoveEvents : handleMouseMove(e)
    \/ handleMouseUp
    \/ \E p \in InpaintPrompts : setInpaintPrompt(p)
    \/ handleInpaintRequest
    \/ \E i \in 1..Len(calls) : editImageWithSelectionLoadedAs(i, MaskImageSizes)
    \/ \E i \in 1..Len(calls) : handleInpaintRequestResume(i)

SpecMask == InitSelector /\ [][NextMask]_vars

(* ---------------------------- the uploads alone ------------------------ *)
\* The two file inputs and the prompt, before any edit is requested; the
\* pending uploads keep the history Superseded records.
NextUploads ==
    \/ \E f \in Files : handleImageUpload(f)
    \/ \E i \in 1..MaxPendingUploads : handleImageUploadResumeTracking(i, TRUE)
    \/ \E f \in RefFiles : handleReferenceImageUpload(f)
    \/ \E i \in 1..MaxPendingUploads : handleReferenceImageUploadResume(i)
    \/ \E p \in Prompts : setPrompt(p)

SpecUploads == Init /\ [][NextUploads]_vars

(* ------------------------------ properties ----------------------------- *)
\* C1: at most one edit call of geminiService is outstanding, and one is
\* outstanding only while isLoading is set (which is what disables both
\* submit buttons, so a second submission cannot be dispatched).
C1_SingleOutstandingCall == Len(calls) <= 1 /\ (calls # <<>> => isLoading)

\* a request is in flight while an image and a prompt for another are there
C1_Witness ==
    /\ Len(calls) = 1
    /\ isLoading
    /\ originalImage # Null
    /\ Trim(prompt) # <<>>

\* C2: every region handed to editImageWithSelection has width > 0 and
\* height > 0.
C2_NoDegenerateRegionDispatched ==
    \A i \in 1..Len(calls) :
        calls[i].kind = "selection" =>
            /\ Val(calls[i].selection).width > 0
            /\ Val(calls[i].selection).height > 0

\* a region edit has just been dispatched
C2_Witness ==
    /\ lastOp = "handleInpaintRequest:dispatched"
    /\ Len(calls) = 1
    /\ calls[1].kind = "selection"

\* C3 (as claimed): a whole-image edit whose response holds no image unit
\* fails with the no-image message, not the one used for transport failures.
C3_NoImageErrorIsDistinct ==
    (/\ lastOp = "handleEditRequest:failed"
     /\ lastResponse.ok
     /\ FirstInlineData(lastResponse.parts) = Null)
    => error = Some(MsgNoImage)

\* C4: right after handleImageUpload accepts an image file, editedImage is
\* null, isSelecting is false and selection is null.
C4_UploadClearsEditState ==
    lastOp = "handleImageUpload:accepted" =>
        (editedImage = Null /\ ~isSelecting /\ selection = Null)

\* an upload accepted while a drag begun in selection mode over an edited
\* image was still in progress
C4_Witness ==
    /\ lastOp = "handleImageUpload:accepted"
    /\ isDrawing
    /\ editedImage = Null

\* C5: whenever isLoading is set it is cleared again, given that what the
\* request awaits settles (SpecFair).
C5_LoadingEventuallyCleared == isLoading ~> ~isLoading

\* a region edit failed and left the controller idle with its error shown
C5_Witness ==
    /\ lastOp = "handleInpaintRequest:failed"
    /\ ~isLoading
    /\ error # Null
    /\ calls = <<>>

\* C6: every region the selector produces lies inside the surface:
\* 0 <= x, 0 <= y, width >= 0, height >= 0, x + width <= 100 and
\* y + height <= 100.
C6_RegionWithinSurface ==
    selection # Null =>
        /\ 0 <= Val(selection).x
        /\ 0 <= Val(selection).y
        /\ Val(selection).width >= 0
        /\ Val(selection).height >= 0
        /\ Val(selection).x + Val(selection).width <= 100
        /\ Val(selection).y + Val(selection).height <= 100

\* a drag from the middle of the surface up and to the left, past its corner
C6_Witness ==
    /\ lastOp = "handleMouseMove:resized"
    /\ startPos = [x |-> 50, y |-> 50]
    /\ selection = Some([x |-> 0, y |-> 0, width |-> 50, height |-> 50])

\* C7: handleMouseUp ends the drag, only a handleMouseDown accepted in
\* selection mode starts one, and while no drag is in progress a pointer
\* move leaves the region as it is.
C7_MoveAfterDragIgnored ==
    [][/\ lastOp' = "handleMouseUp" => ~isDrawing'
       /\ (~isDrawing /\ isDrawing') =>
             (lastOp' = "handleMouseDown:anchored" /\ isSelecting)
       /\ (~isDrawing /\ lastOp' \in {"handleMouseMove:ignored",
                                       "handleMouseMove:resized"}) =>
             selection' = selection]_vars

\* a pointer move after the end of a drag that left a region behind
C7_Witness ==
    /\ lastOp = "handleMouseMove:ignored"
    /\ ~isDrawing
    /\ isSelecting
    /\ selection # Null
    /\ Val(selection).width > 0

\* the steps after which a new edited image or none is in the slot
UploadAccepted == "handleImageUpload:accepted"
EditSucceeded == {"handleEditRequest:succeeded", "handleInpaintRequest:succeeded"}

\* C8 (as claimed): the edited-image slot changes only when a primary upload
\* is accepted or an edit request succeeds.
C8_EditedChangesOnlyOnUploadOrSuccess ==
    [][editedImage' # editedImage =>
         (lastOp' = UploadAccepted \/ lastOp' \in EditSucceeded)]_vars

\* C8 (amended): the edited-image slot changes only when a primary upload is
\* accepted, when a whole-image edit is dispatched (which clears it), or
\* when an edit request succeeds; dispatching a region edit and the failure
\* of either kind of edit leave it as it is.
C8_EditedChangesOnlyOnUploadDispatchOrSuccess ==
    [][/\ editedImage' # editedImage =>
             \/ lastOp' = UploadAccepted
             \/ lastOp' \in EditSucceeded
             \/ (lastOp' = "handleEditRequest:dispatched" /\ editedImage' = Null)
       /\ lastOp' \in {"handleInpaintRequest:dispatched",
                        "handleInpaintRequest:failed",
                        "handleEditRequest:failed"} =>
             editedImage' = editedImage]_vars

\* a region edit failed and the edited image it was asked for is still there
C8_Witness ==
    /\ lastOp = "handleInpaintRequest:failed"
    /\ editedImage # Null

\* the steps that complete an action successfully
Completed ==
    {"handleImageUpload:stored", "handleReferenceImageUpload:stored",
     "handleEditRequest:succeeded", "handleInpaintRequest:succeeded"}

\* the steps that start an upload or a submission
Started ==
    {"handleImageUpload:accepted", "handleReferenceImageUpload:accepted",
     "handleEditRequest:dispatched", "handleInpaintRequest:dispatched"}

\* C9 (as claimed): a displayed error goes away only when an action
\* completes successfully or another error replaces it.
C9_ErrorStaysUntilSuccessOrNewError ==
    [][(error # Null /\ error' # error) =>
         (error' # Null \/ lastOp' \in Completed)]_vars

\* C9 (amended): a displayed error stays until another error replaces it or
\* until an upload is accepted or a submission is dispatched, which clear it
\* as they start; completing an action successfully leaves it displayed.
C9_ErrorStaysUntilStartOrNewError ==
    [][/\ (error # Null /\ error' # error) =>
             (error' # Null \/ lastOp' \in Started)
       /\ lastOp' \in Completed => error' = error
       /\ lastOp' \in Started => error' = Null]_vars

\* an upload was stored while the error of a later rejected file is displayed
C9_Witness ==
    /\ lastOp = "handleImageUpload:stored"
    /\ error = Some(MsgInvalidFileType)

\* C10 (as claimed): while the encode of an uploaded file is pending, no
\* edit is dispatched and no second upload starts.
C10_UploadsAndSubmissionsSerialized ==
    [][uploads # <<>> =>
         (Len(calls') <= Len(calls) /\ Len(uploads') <= Len(uploads))]_vars

\* C11: toggling selection mode from on to off sets the region to null and
\* the region prompt to the empty string; toggling it from off to on changes
\* neither of them.
C11_ToggleClearsOnlyWhenLeaving ==
    [][lastOp' = "handleSelectAreaToggle" =>
         IF isSelecting
         THEN ~isSelecting' /\ selection' = Null /\ inpaintPrompt' = <<>>
         ELSE isSelecting' /\ selection' = selection
                           /\ inpaintPrompt' = inpaintPrompt]_vars

\* selection mode was switched off in the middle of a drag: the drag is
\* still in progress, the region and the region prompt are gone
C11_Witness ==
    /\ lastOp = "handleSelectAreaToggle"
    /\ ~isSelecting
    /\ isDrawing
    /\ selection = Null
    /\ inpaintPrompt = <<>>

\* C12: when a region edit succeeds, the new edited image is stored and the
\* handler ends with selection mode off, the region null and the region
\* prompt empty.
C12_RegionEditSuccessResets ==
    lastOp = "handleInpaintRequest:succeeded" =>
        /\ editedImage =
              Some(DataUrl(<<"image/", "png">>,
                           editImageWithSelection(lastResponse).data))
        /\ ~isSelecting
        /\ selection = Null
        /\ inpaintPrompt = <<>>

\* a region edit succeeded while the pointer was still held down from
\* drawing the region
C12_Witness ==
    /\ lastOp = "handleInpaintRequest:succeeded"
    /\ isDrawing
    /\ editedImage = Some(DataUrl(<<"image/", "png">>, <<"N1">>))

\* C13: the content sequence a whole-image edit sends is the primary image
\* first, then the reference image if and only if one is stored, then the
\* prompt text last, and nothing else.
C13_PromptContentOrder ==
    lastOp = "handleEditRequest:dispatched" =>
        LET parts == calls[Len(calls)].parts
            n == Len(parts)
        IN  /\ n = (IF referenceImage = Null THEN 2 ELSE 3)
            /\ parts[1].type = "image"
            /\ parts[1].data = Val(originalImage).base64
            /\ parts[1].mimeType = Val(originalImage).mimeType
            /\ referenceImage # Null =>
                  /\ parts[2].type = "image"
                  /\ parts[2].data = Val(referenceImage).base64
                  /\ parts[2].mimeType = Val(referenceImage).mimeType
            /\ parts[n].type = "text"
            /\ parts[n].data = Trim(prompt)

\* a whole-image edit was dispatched with a reference image stored that
\* differs from the primary image
C13_Witness ==
    /\ lastOp = "handleEditRequest:dispatched"
    /\ referenceImage # Null
    /\ referenceImage # originalImage
    /\ Len(calls[Len(calls)].parts) = 3

\* the scaled bounds of region s fall on pixel boundaries of image img
WholePixels(s, img) ==
    /\ (s.x * img.width) % 100 = 0
    /\ (s.width * img.width) % 100 = 0
    /\ (s.y * img.height) % 100 = 0
    /\ (s.height * img.height) % 100 = 0

\* C14: for every region whose scaled bounds are whole pixels (the region
\* {25, 25, 50, 50} on a 100 x 100 image among them), the mask has the pixel
\* dimensions of the base image, and pixel (col, row) is white exactly when
\* x/100*W <= col < (x+width)/100*W and y/100*H <= row < (y+height)/100*H,
\* and black otherwise.
C14_MaskIsScaledRegion ==
    \A i \in 1..Len(calls) :
        (calls[i].kind = "selection" /\ calls[i].stage = "remote") =>
            LET s == Val(calls[i].selection)
                img == Val(calls[i].image)
                W == img.width
                H == img.height
                mask == calls[i].parts[2].data
            IN  WholePixels(s, img) =>
                  /\ mask.width = W
                  /\ mask.height = H
                  /\ DOMAIN mask.pixels = (0..W - 1) \X (0..H - 1)
                  /\ \A col \in 0..W - 1, row \in 0..H - 1 :
                        mask.pixels[<<col, row>>] =
                           IF /\ s.x * W <= 100 * col
                              /\ 100 * col < (s.x + s.width) * W
                              /\ s.y * H <= 100 * row
                              /\ 100 * row < (s.y + s.height) * H
                           THEN "white"
                           ELSE "black"

\* the mask of region {25, 25, 50, 50} on a 100 x 100 image was sent: its
\* corner pixels (25, 25) and (74, 74) are white, their outer neighbours
\* are black
C14_Witness ==
    \E i \in 1..Len(calls) :
        /\ calls[i].kind = "selection"
        /\ calls[i].stage = "remote"
        /\ calls[i].selection = Some([x |-> 25, y |-> 25, width |-> 50, height |-> 50])
        /\ calls[i].image = Some([width |-> 100, height |-> 100])
        /\ calls[i].parts[2].data.pixels[<<25, 25>>] = "white"
        /\ calls[i].parts[2].data.pixels[<<74, 74>>] = "white"
        /\ calls[i].parts[2].data.pixels[<<24, 25>>] = "black"
        /\ calls[i].parts[2].data.pixels[<<74, 75>>] = "black"

\* what makes a remote edit fail inside the service: the request is
\* rejected, the response holds no image, the stored image does not load,
\* the canvas gives no 2D context
Causes == {"generateContent rejected", MsgNoImage, "image.onerror", MsgNoCanvas}

\* C15: after a failed remote edit the error displayed is the fixed message
\* of the entry point that failed, and the text of the underlying cause is
\* never stored in the error state.
C15_FailureShowsFixedMessage ==
    /\ lastOp = "handleEditRequest:failed" => error = Some(MsgEditFailed)
    /\ lastOp = "handleInpaintRequest:failed" => error = Some(MsgSelectionFailed)
    /\ \A cause \in Causes : error # Some(cause)

\* a region edit failed because the response held text only: the message of
\* editImageWithSelection is displayed
C15_Witness ==
    /\ lastOp = "handleInpaintRequest:failed"
    /\ lastResponse = [ok |-> TRUE, parts |-> <<TextPart>>]
    /\ error = Some(MsgSelectionFailed)

\* C16: both entry points scan the content units of the response in order
\* and return the payload of the first image unit, whatever text units come
\* before it and whatever image units come after it.
C16_FirstImageUnitReturned ==
    lastOp \in {"handleEditRequest:succeeded", "handleInpaintRequest:succeeded"} =>
        \E k \in 1..Len(lastResponse.parts) :
            /\ lastResponse.parts[k].type = "image"
            /\ \A j \in 1..(k - 1) : lastResponse.parts[j].type # "image"
            /\ editedImage =
                  Some(DataUrl(<<"image/", "png">>, lastResponse.parts[k].data))

\* a whole-image edit consumed a response of a text unit and two image
\* units: the payload of the first image unit is stored
C16_Witness ==
    /\ lastOp = "handleEditRequest:succeeded"
    /\ lastResponse.parts =
          <<TextPart, ImagePart(<<"N1">>), ImagePart(<<"N2">>)>>
    /\ editedImage = Some(DataUrl(<<"image/", "png">>, <<"N1">>))

\* C17: a region edit sends exactly three content units, in the order base
\* image, mask, prompt; the base image is the edited image currently stored,
\* and neither the original nor the reference image is part of the request.
C17_RegionEditContent ==
    \A i \in 1..Len(calls) :
        (calls[i].kind = "selection" /\ calls[i].stage = "remote") =>
            LET parts == calls[i].parts
            IN  /\ Len(parts) = 3
                /\ parts[1].type = "image"
                /\ editedImage # Null
                /\ DataUrl(parts[1].mimeType, parts[1].data) = Val(editedImage)
                /\ parts[2].type = "mask"
                /\ parts[3].type = "text"
                /\ parts[3].data = inpaintPrompt
                /\ originalImage # Null =>
                      parts[1].data # Val(originalImage).base64
                /\ referenceImage # Null =>
                      parts[1].data # Val(referenceImage).base64

\* a region edit is on its way while an original and a reference image
\* are stored
C17_Witness ==
    /\ calls # <<>>
    /\ calls[1].kind = "selection"
    /\ calls[1].stage = "remote"
    /\ originalImage # Null
    /\ referenceImage # Null
    /\ calls[1].parts[1].data = <<"N1">>

\* C18: a pointer-down while selection mode is off is a no-op: the region,
\* the drag-in-progress flag and the anchor stay as they are.
C18_PressOutsideSelectionModeIgnored ==
    [][(/\ ~isSelecting
        /\ lastOp' \in {"handleMouseDown:ignored", "handleMouseDown:anchored"}) =>
           /\ lastOp' = "handleMouseDown:ignored"
           /\ UNCHANGED <<selection, isDrawing, startPos, isSelecting>>]_vars

\* the button went down with selection mode off while the flag of an earlier
\* drag was still set
C18_Witness ==
    /\ lastOp = "handleMouseDown:ignored"
    /\ ~isSelecting
    /\ isDrawing
    /\ selection = Null

\* C19: a whole-image submission with no primary image or with an empty or
\* whitespace-only prompt dispatches no call, sets the validation error and
\* leaves isLoading, editedImage, isSelecting and selection unchanged; a
\* region submission with no edited image, no region or a blank region
\* prompt dispatches no call either.
C19_InvalidSubmissionDispatchesNothing ==
    [][/\ (/\ originalImage = Null \/ Trim(prompt) = <<>>
           /\ lastOp' \in {"handleEditRequest:invalid",
                           "handleEditRequest:dispatched"}) =>
              /\ lastOp' = "handleEditRequest:invalid"
              /\ calls' = calls
              /\ error' = Some(MsgEditValidation)
              /\ UNCHANGED <<isLoading, editedImage, isSelecting, selection>>
       /\ (/\ editedImage = Null \/ selection = Null
                 \/ Trim(inpaintPrompt) = <<>>
           /\ lastOp' \in {"handleInpaintRequest:invalid",
                           "handleInpaintRequest:unparsable",
                           "handleInpaintRequest:dispatched"}) =>
              /\ lastOp' = "handleInpaintRequest:invalid"
              /\ calls' = calls
              /\ error' = Some(MsgInpaintValidation)]_vars

\* a whitespace-only prompt was submitted while an edited image with a
\* region drawn on it was displayed: only the error changed
C19_Witness ==
    /\ lastOp = "handleEditRequest:invalid"
    /\ error = Some(MsgEditValidation)
    /\ Trim(prompt) = <<>>
    /\ editedImage # Null
    /\ isSelecting
    /\ selection # Null
    /\ ~isLoading
    /\ calls = <<>>

\* the payloads a successful edit can return
ReturnedPayloads ==
    {editImageWithPrompt(response).data :
        response \in {r \in Responses : editImageWithPrompt(r).ok}}

\* C20 (as claimed): for every payload p returned by a successful edit, the
\* data URL stored as edited image, split again as handleInpaintRequest
\* splits it, yields exactly p and the format tag image/png, so the stored
\* edited image never triggers the "could not process the existing edited
\* image" error.
C20_StoredEditedImageRoundTrips ==
    \A p \in ReturnedPayloads :
        editedImage = Some(DataUrl(<<"image/", "png">>, p)) =>
            LET d == Destructure2(Split(Val(editedImage), ","))
            IN  /\ d.base64 = Some(p)
                /\ MimeTypeMatch(d.header) = Some(<<"image/", "png">>)
                /\ lastOp # "handleInpaintRequest:unparsable"
                /\ error # Some(MsgEditedUnparsable)

\* C21 (as claimed): whenever selection mode is off the stored region is
\* null, also when an edit succeeds or a new image is uploaded while a drag
\* is in progress.
C21_NoRegionOutsideSelectionMode == ~isSelecting => selection = Null

\* C22 (as claimed): an edited image stored while no operation is pending
\* was produced from the original image stored at that moment; checked on
\* the step that stores the result of a whole-image edit, whose request
\* carries the original it was made from as its first content unit.
C22_EditedBelongsToCurrentOriginal ==
    [][(lastOp' = "handleEditRequest:succeeded" /\ uploads' = <<>>
                                                /\ calls' = <<>>) =>
          \A i \in 1..Len(calls) :
              calls[i].kind = "prompt" =>
                  /\ originalImage' # Null
                  /\ calls[i].parts[1].data = Val(originalImage').base64
                  /\ calls[i].parts[1].mimeType = Val(originalImage').mimeType]_vars

\* C23 (as claimed): of two primary uploads accepted in the order A then B,
\* B's image is the original stored once both encodes have completed, in
\* whatever order the reads finish: no upload replaces the original image
\* after an upload accepted later than it has been stored.
C23_LastAcceptedUploadWins ==
    [][\A i \in 1..Len(uploads) :
          (/\ uploads[i].slot = "original"
           /\ lastOp' = "handleImageUpload:stored"
           /\ uploads' = Superseded(RemoveAt(uploads, i), i - 1)
           /\ originalImage' # originalImage
           /\ Val(originalImage').url = uploads[i].file) =>
              ~uploads[i].stale]_vars

\* the edited image, the mode and the region prompt are those the region
\* edit calls[i] was submitted with
AsSubmitted(i) ==
    /\ editedImage' =
          Some(DataUrl(calls[i].parts[1].mimeType, calls[i].parts[1].data))
    /\ isSelecting'
    /\ inpaintPrompt' = calls[i].parts[Len(calls[i].parts)].data

\* C24 (as claimed): a failed region edit changes only error and isLoading;
\* editedImage, selection, isSelecting and inpaintPrompt keep the values
\* they had when the request was submitted.
C24_FailedRegionEditKeepsSubmitted ==
    [][lastOp' = "handleInpaintRequest:failed" =>
          /\ UNCHANGED <<editedImage, selection, isSelecting, inpaintPrompt>>
          /\ \A i \in 1..Len(calls) :
                AsSubmitted(i) /\ selection' = calls[i].selection]_vars

\* C24 (amended): a failed region edit changes only error and isLoading;
\* editedImage, isSelecting and inpaintPrompt keep the values they had when
\* the request was submitted, and selection keeps the value it has when the
\* failure arrives, which is a region, though not always the submitted one.
C24_FailedRegionEditKeepsState ==
    [][lastOp' = "handleInpaintRequest:failed" =>
          /\ UNCHANGED <<editedImage, selection, isSelecting, inpaintPrompt,
                         originalImage, referenceImage, prompt, isDrawing,
                         startPos, uploads>>
          /\ ~isLoading'
          /\ selection' # Null
          /\ \A i \in 1..Len(calls) : AsSubmitted(i)]_vars

\* a region edit failed after the button went down on the surface while the
\* request was in flight: the region is the empty one that press left (a
\* submitted region is never empty)
C24_Witness ==
    /\ lastOp = "handleInpaintRequest:failed"
    /\ isSelecting
    /\ editedImage # Null
    /\ selection # Null
    /\ Val(selection).width = 0
    /\ inpaintPrompt # <<>>

\* C25: an upload, primary or reference, of a file whose type does not start
\* with "image/" sets the invalid-file-type error and leaves originalImage,
\* referenceImage, editedImage, isSelecting and selection unchanged; such a
\* file is never read.
C25_NonImageUploadRejected ==
    [][/\ lastOp' \in {"handleImageUpload:invalid",
                       "handleReferenceImageUpload:invalid"} =>
             /\ error' = Some(MsgInvalidFileType)
             /\ UNCHANGED <<originalImage, referenceImage, editedImage,
                            isSelecting, selection, uploads>>
       /\ \A i \in 1..Len(uploads') :
             StartsWithImage(FileType(uploads'[i].file))]_vars

\* a text file was offered as reference image while a region was drawn on
\* the edited image: the region, the mode and the images are still there
C25_Witness ==
    /\ lastOp = "handleReferenceImageUpload:invalid"
    /\ error = Some(MsgInvalidFileType)
    /\ originalImage # Null
    /\ referenceImage # Null
    /\ editedImage # Null
    /\ isSelecting
    /\ selection # Null

=============================================================================
